---- MODULE Spec2Model ----
(***************************************************************************)
(* Study timer (study_timer_project.py): the Start/Pause/Reset/Stop timer  *)
(* of StudyTimerTargetApp, the CSV session log it appends to, the          *)
(* analytics recomputed from the log, the daily-target popup and the voice *)
(* command worker.                                                         *)
(*                                                                         *)
(* Time.  time.time() is modelled in ticks of 1/Res second (now).  The     *)
(* wall-clock calendar date (datetime.date.today(), pd.Timestamp.today())  *)
(* is the day number today; midnight falls at an arbitrary tick, and       *)
(* tod_zero says that the wall clock stands exactly on it.  Float rounding *)
(* error of the additions is not modelled: elapsed times are exact         *)
(* multiples of a tick.                                                    *)
(***************************************************************************)
EXTENDS Integers, Sequences, FiniteSets, TLC

VARIABLES
    now,                  \* time.time(), in ticks
    today,                \* calendar date (day number) of the wall clock
    tod_zero,             \* the wall clock reads exactly 00:00:00.000000
    timer_running,        \* self.timer_running
    start_time,           \* self.start_time (None or a time.time() value)
    accumulated_seconds,  \* self.accumulated_seconds, in ticks
    timer_job,            \* self._timer_job (None or an after() id)
    scheduled,            \* after() callbacks of _tick that are pending in Tk
    current_subject,      \* self.current_subject
    subjects,             \* self.subjects
    csv_path,             \* self.csv_path
    files,                \* the file system: location -> CSV file
    daily_target_minutes, \* self.daily_target_minutes (the entry's IntVar)
    today_minutes,        \* self.today_minutes
    time_label,           \* text of self.time_label
    ov_label,             \* text of self.ov_label
    progress_label,       \* self.progress / self.progress_label
    daily_chart,          \* what ax_daily shows
    subj_chart,           \* what ax_subj shows
    recent_list,          \* self.recent_list
    voice_listening,      \* self.voice_listening
    workers,              \* _voice_worker threads inside listen_once
    inflight,             \* _stop_and_save calls of voice threads past line 324
    starting,             \* _start_timer calls of voice threads past line 285
    popups,               \* "Target achieved" message boxes shown so far
    active,               \* history: ticks spent Running since the timer left Idle
    pauses,               \* history: pauses since the timer left Idle
    session,              \* history: number of the timing session
    saved_sessions,       \* history: per appended row, the session it times
    valid_target,         \* history: the last target typed that was > 0
    last_stop             \* what the _stop_and_save that has just returned saw
                          \* and did ("none" after any other step)

vars == <<now, today, tod_zero, timer_running, start_time, accumulated_seconds, timer_job,
          scheduled, current_subject, subjects, csv_path, files,
          daily_target_minutes, today_minutes, time_label, ov_label,
          progress_label, daily_chart, subj_chart, recent_list,
          voice_listening, workers, inflight, starting, popups, active, pauses, session,
          saved_sessions, valid_target, last_stop>>

-----------------------------------------------------------------------------
(* Bounds of the model *)

\* ticks per second (3: a sub-second part is nearer to one whole second than
\* to the other)
Res == 3
\* the clock takes single ticks only this far into a minute
MaxSub == 2
\* the clock stops after this many minutes
MaxMinutes == 1
\* midnights that pass
MaxDay == 1
\* rows appended to the log files by this run
MaxRows == 2
\* voice worker threads alive at once
MaxWorkers == 2
\* pauses counted per timing session (the count saturates)
MaxPauses == 2
\* after() callbacks of _tick pending at once
MaxJobs == 2
\* weekday (0 = Monday) of day number 0
FirstWeekday == 6

(* Program constants *)

SecPerMin == 60
DefaultTarget == 60
DailyDays == 14
SubjectDays == 7
RecentRows == 8
DaysPerWeek == 7

None == -1
NoJob == 0

TicksPerMin == SecPerMin * Res
\* timing sessions started: as many as rows
MaxSessions == MaxRows
\* time.time() when the application starts: far from 0
Epoch == TicksPerMin

DEFAULT_SUBJECTS == <<"Math", "Physics">>
\* names the user can add with "Add Subject" (already stripped and title-cased)
AddableSubjects == {"N/A"}
AllSubjects == {DEFAULT_SUBJECTS[i] : i \in 1..Len(DEFAULT_SUBJECTS)} \cup AddableSubjects

DEFAULT_CSV_NAME == "study_log.csv"
Locations == {DEFAULT_CSV_NAME, "other.csv"}

\* values the user can type into the target entry
TargetInputs == {-1, 0, 1}

-----------------------------------------------------------------------------
(* Python helpers *)

\* truth value of a number-or-None
Truthy(x) == x # None /\ x # 0

\* IntSeconds gone wrong: a duration below one second raised to 1
IntSeconds_at_least_one(ticks) == IF ticks < Res THEN 1 ELSE ticks \div Res

\* IntSeconds gone wrong: the seconds rounded up
IntSeconds_ceil(ticks) == (ticks + Res - 1) \div Res

\* int(x) of a non-negative duration held in ticks: whole seconds, truncated
IntSeconds(ticks) == ticks \div Res

Max(a, b) == IF a >= b THEN a ELSE b
Min(a, b) == IF a <= b THEN a ELSE b

IsPrefix(s, t) == Len(s) <= Len(t) /\ SubSeq(t, 1, Len(s)) = s

Reverse(s) == [i \in 1..Len(s) |-> s[Len(s) + 1 - i]]

\* seconds_to_mmss
seconds_to_mmss(ticks) ==
    LET sec == IntSeconds(ticks)
    IN  <<sec \div SecPerMin, sec % SecPerMin>>

-----------------------------------------------------------------------------
(* The CSV file *)

NoFile == [exists |-> FALSE, rows |-> <<>>]
EmptyFile == [exists |-> TRUE, rows |-> <<>>]

\* ensure_csv_exists gone wrong: the os.path.exists test left out
ensure_csv_exists_rewrites(fs, path) == [fs EXCEPT ![path] = EmptyFile]

\* ensure_csv_exists: writes the header-only file when the path is not there
ensure_csv_exists(fs, path) ==
    IF ~fs[path].exists THEN [fs EXCEPT ![path] = EmptyFile] ELSE fs

\* the row append_session_csv builds when its two clock reads (lines 77 and
\* 78) fall on one date; timestamp holds the calendar date of datetime.now(),
\* duration_seconds is int() of the integer it is given
SessionRow(subject, duration_seconds) ==
    [timestamp |-> today, date |-> today, subject |-> subject,
     duration_seconds |-> duration_seconds]

\* the row it builds when midnight passes between the two clock reads:
\* datetime.now() is of the old date, date.today() of the new one
SessionRowOverMidnight(subject, duration_seconds) ==
    [timestamp |-> today, date |-> today + 1, subject |-> subject,
     duration_seconds |-> duration_seconds]

\* append_session_csv: to_csv(mode='a', header=False)
append_session_csv(fs, path, subject, duration_seconds) ==
    LET fs1 == ensure_csv_exists(fs, path)
    IN  [fs1 EXCEPT ![path].rows = Append(@, SessionRow(subject, duration_seconds))]

\* strings pd.read_csv turns into NaN by default (those a title-cased name can be)
NaValues == {"N/A", "#N/A", "None", ""}
NaN == "float:nan"

\* pd.read_csv: the data rows, each field parsed
read_csv(fs, path) ==
    LET rows == fs[path].rows
    IN  [i \in 1..Len(rows) |->
            [rows[i] EXCEPT !.subject = IF @ \in NaValues THEN NaN ELSE @]]

-----------------------------------------------------------------------------
(* Analytics: each is recomputed from a fresh pd.read_csv *)

\* df['duration_seconds'].sum()
RECURSIVE SumDuration(_)
SumDuration(df) ==
    IF df = <<>> THEN 0 ELSE Head(df).duration_seconds + SumDuration(Tail(df))

\* df[df['date'].dt.date == d]['duration_seconds'].sum()
SecondsOn(df, d) == LET keep(r) == r.date = d IN SumDuration(SelectSeq(df, keep))

\* today.weekday()
Weekday(d) == (d + FirstWeekday) % DaysPerWeek

\* TotalToday gone wrong: the selection of today's rows left out
TotalToday_all_dates(df) == SumDuration(df) \div SecPerMin

\* total_today of _refresh_overview and _check_daily_target_and_notify
TotalToday(df) == SecondsOn(df, today) \div SecPerMin

\* total_week of _refresh_overview
TotalWeek(df) ==
    LET week_start == today - Weekday(today)
        keep(r) == r.date >= week_start
    IN  SumDuration(SelectSeq(df, keep)) \div SecPerMin

\* EffectiveTarget gone wrong: the "or 60" left out
EffectiveTarget_no_default(v) == Max(1, v)

\* max(1, int(self.daily_target_minutes.get() or 60))
EffectiveTarget(v) == Max(1, IF v = 0 THEN DefaultTarget ELSE v)

\* _refresh_overview: <<ov_label, today_minutes, progress_label>>
refresh_overview(fs) ==
    LET df == read_csv(fs, csv_path)
        tmin == IF df = <<>> THEN 0 ELSE TotalToday(df)
        target == EffectiveTarget(daily_target_minutes)
    IN  [ov |-> IF df = <<>> THEN [empty |-> TRUE, today |-> 0, week |-> 0]
                ELSE [empty |-> FALSE, today |-> tmin, week |-> TotalWeek(df)],
         today_minutes |-> tmin,
         progress |-> [done |-> tmin, target |-> target,
                       fraction |-> <<Min(tmin, target), target>>]]

\* _draw_daily_chart gone wrong: days=14 for days=13 at line 409
draw_daily_chart_one_more(fs) ==
    LET df == read_csv(fs, csv_path)
    IN  IF df = <<>> THEN [nodata |-> TRUE, vals |-> <<>>]
        ELSE [nodata |-> FALSE,
              vals |-> [i \in 1..(DailyDays + 1) |->
                          <<SecondsOn(df, today - DailyDays + (i - 1)), SecPerMin>>]]

\* _draw_daily_chart: "No data", or the 14 plotted values (seconds / 60 each,
\* a true division kept as <<numerator, denominator>>), oldest day first
draw_daily_chart(fs) ==
    LET df == read_csv(fs, csv_path)
    IN  IF df = <<>> THEN [nodata |-> TRUE, vals |-> <<>>]
        ELSE [nodata |-> FALSE,
              vals |-> [i \in 1..DailyDays |->
                          <<SecondsOn(df, today - (DailyDays - 1) + (i - 1)), SecPerMin>>]]

\* _refresh_recent_sessions: the last 8 rows, newest first
refresh_recent_sessions(fs) ==
    LET df == read_csv(fs, csv_path)
        n == Len(df)
        last == SubSeq(df, Max(1, n - RecentRows + 1), n)
    IN  [i \in 1..Len(last) |->
            LET r == Reverse(last)[i]
            IN  [ts |-> r.timestamp, subj |-> r.subject,
                 mins |-> r.duration_seconds \div SecPerMin]]

\* the orders sort_values(ascending=False) may leave the groups in: descending
\* by sum, groups of equal sum in either order (quicksort is not stable)
SortedOrders(keys, total) ==
    {o \in [1..Cardinality(keys) -> keys] :
        /\ \A i, j \in 1..Cardinality(keys) : i # j => o[i] # o[j]
        /\ \A i, j \in 1..Cardinality(keys) : i < j => total[o[i]] >= total[o[j]]}

\* _draw_subject_chart: the charts it may draw.  cutoff is now minus 7 days,
\* time of day included, and the dates compared with it are midnights;
\* groupby drops the rows whose subject is NaN
draw_subject_chart(fs) ==
    LET df == read_csv(fs, csv_path)
        recent(r) == IF tod_zero THEN r.date >= today - SubjectDays
                     ELSE r.date > today - SubjectDays
        df_recent == SelectSeq(df, recent)
        keys == {df_recent[i].subject : i \in 1..Len(df_recent)} \ {NaN}
        total == [k \in keys |->
                    LET mine(r) == r.subject = k
                    IN  SumDuration(SelectSeq(df_recent, mine))]
    IN  IF df = <<>> THEN {[text |-> "No data", bars |-> <<>>]}
        ELSE IF keys = {} THEN {[text |-> "No recent data (7 days)", bars |-> <<>>]}
        ELSE {[text |-> "", bars |-> [i \in 1..Cardinality(keys) |->
                                        <<o[i], <<total[o[i]], SecPerMin>>>>]] :
                 o \in SortedOrders(keys, total)}

-----------------------------------------------------------------------------
(* State after StudyTimerTargetApp.__init__ *)

\* a row an earlier run of the application left in a log
EarlierRow(d, subject, secs) ==
    [timestamp |-> d, date |-> d, subject |-> subject, duration_seconds |-> secs]

\* the file systems the application may start on: no log anywhere, or logs
\* of earlier runs at both locations
EarlierFiles ==
    {[l \in Locations |-> NoFile],
     [l \in Locations |->
        IF l = DEFAULT_CSV_NAME
        THEN [exists |-> TRUE, rows |-> <<EarlierRow(1 - SubjectDays, "Physics", 90)>>]
        ELSE [exists |-> TRUE, rows |-> <<EarlierRow(-1, "Math", 60)>>]]}

timerVars == <<timer_running, start_time, accumulated_seconds, timer_job, scheduled>>
clockVars == <<now, today, tod_zero>>
subjectVars == <<current_subject, subjects>>
chartVars == <<ov_label, progress_label, daily_chart, subj_chart, recent_list, today_minutes>>
voiceVars == <<voice_listening, workers, inflight, starting>>
historyVars == <<active, pauses, session, saved_sessions, valid_target>>

NoStop == [outcome |-> "none", box |-> "", phase |-> "Idle", duration |-> 0,
           active |-> 0, pauses |-> 0, elapsed |-> 0]

Init ==
    /\ now = Epoch /\ today = 0 /\ tod_zero = FALSE
    /\ timer_running = FALSE /\ start_time = None /\ accumulated_seconds = 0
    /\ timer_job = NoJob /\ scheduled = {}
    /\ subjects = DEFAULT_SUBJECTS /\ current_subject = DEFAULT_SUBJECTS[1]
    /\ csv_path = DEFAULT_CSV_NAME
    /\ daily_target_minutes = DefaultTarget
    /\ \E fs \in EarlierFiles : files = ensure_csv_exists(fs, DEFAULT_CSV_NAME)
    /\ time_label = seconds_to_mmss(0)
    /\ recent_list = refresh_recent_sessions(files)
    /\ subj_chart \in draw_subject_chart(files)
    /\ daily_chart = draw_daily_chart(files)
    /\ LET o == refresh_overview(files)
       IN  ov_label = o.ov /\ today_minutes = o.today_minutes
           /\ progress_label = o.progress
    /\ voice_listening = FALSE /\ workers = 0 /\ inflight = <<>> /\ starting = 0
    /\ popups = <<>>
    /\ active = 0 /\ pauses = 0 /\ session = 0 /\ saved_sessions = <<>>
    /\ valid_target = DefaultTarget
    /\ last_stop = NoStop

-----------------------------------------------------------------------------
(* The clock *)

\* time passes: d ticks; the wall clock stays within the day, passes midnight,
\* or comes to stand exactly on midnight
Advance(d, crossing) ==
    /\ last_stop' = NoStop
    /\ (now + d) \div TicksPerMin <= MaxMinutes + 1
    /\ d = 1 => now % TicksPerMin < MaxSub
    /\ crossing # "within" => today < MaxDay
    /\ now' = now + d
    /\ today' = IF crossing = "within" THEN today ELSE today + 1
    /\ tod_zero' = (crossing = "onto")
    /\ active' = IF timer_running THEN active + d ELSE active
    /\ UNCHANGED <<timerVars, subjectVars, csv_path, files, daily_target_minutes,
                   time_label, chartVars, voiceVars, popups,
                   pauses, session, saved_sessions, valid_target>>

-----------------------------------------------------------------------------
(* Timer *)

Phase == IF timer_running THEN "Running"
         ELSE IF accumulated_seconds > 0 THEN "Paused" ELSE "Idle"

\* what _refresh_timer_display writes, from the given timer fields
refresh_timer_display(running, start, acc) ==
    seconds_to_mmss(IF running /\ Truthy(start) THEN acc + (now - start) ELSE acc)

\* self.after(1000, self._tick): an id no pending callback has
NewJob(pending) ==
    CHOOSE j \in 1..(Cardinality(pending) + 1) :
        j \notin pending /\ \A k \in 1..(j - 1) : k \in pending

\* _tick, entered with the callbacks `pending` still scheduled
tick(pending) ==
    IF ~timer_running'
    THEN /\ timer_job' = timer_job
         /\ scheduled' = pending
         /\ time_label' = time_label
    ELSE /\ time_label' = refresh_timer_display(timer_running', start_time', accumulated_seconds')
         /\ timer_job' = NewJob(pending)
         /\ scheduled' = pending \cup {NewJob(pending)}

\* _start_timer gone wrong: line 287 left out
start_timer_no_instant ==
    IF timer_running
    THEN UNCHANGED <<timerVars, time_label, active, pauses, session>>
    ELSE /\ timer_running' = TRUE
         /\ start_time' = start_time
         /\ accumulated_seconds' = accumulated_seconds
         /\ tick(scheduled)
         /\ IF Phase = "Idle"
            THEN session' = session + 1 /\ active' = 0 /\ pauses' = 0
            ELSE UNCHANGED <<session, active, pauses>>

\* _start_timer gone wrong: the early return of lines 284-285 left out
start_timer_restarts ==
    /\ timer_running' = TRUE
    /\ start_time' = now
    /\ accumulated_seconds' = accumulated_seconds
    /\ tick(scheduled)
    /\ IF Phase = "Idle"
       THEN session' = session + 1 /\ active' = 0 /\ pauses' = 0
       ELSE UNCHANGED <<session, active, pauses>>

\* _start_timer
start_timer ==
    IF timer_running
    THEN UNCHANGED <<timerVars, time_label, active, pauses, session>>
    ELSE /\ timer_running' = TRUE
         /\ start_time' = now
         /\ accumulated_seconds' = accumulated_seconds
         /\ tick(scheduled)
         /\ IF Phase = "Idle"
            THEN session' = session + 1 /\ active' = 0 /\ pauses' = 0
            ELSE UNCHANGED <<session, active, pauses>>

\* _pause_timer gone wrong: = for += at line 295
pause_timer_overwrites ==
    IF ~timer_running
    THEN UNCHANGED <<timerVars, time_label, pauses>>
    ELSE LET elapsed == IF Truthy(start_time) THEN now - start_time ELSE 0
         IN  /\ accumulated_seconds' = elapsed
             /\ start_time' = None
             /\ timer_running' = FALSE
             /\ scheduled' = IF timer_job # NoJob THEN scheduled \ {timer_job} ELSE scheduled
             /\ timer_job' = NoJob
             /\ time_label' = refresh_timer_display(FALSE, None, elapsed)
             /\ pauses' = Min(pauses + 1, MaxPauses)

\* _pause_timer gone wrong: line 296 left out
pause_timer_keeps_start ==
    IF ~timer_running
    THEN UNCHANGED <<timerVars, time_label, pauses>>
    ELSE LET elapsed == IF Truthy(start_time) THEN now - start_time ELSE 0
         IN  /\ accumulated_seconds' = accumulated_seconds + elapsed
             /\ start_time' = start_time
             /\ timer_running' = FALSE
             /\ scheduled' = IF timer_job # NoJob THEN scheduled \ {timer_job} ELSE scheduled
             /\ timer_job' = NoJob
             /\ time_label' = refresh_timer_display(FALSE, start_time, accumulated_seconds + elapsed)
             /\ pauses' = Min(pauses + 1, MaxPauses)

\* _pause_timer
pause_timer ==
    IF ~timer_running
    THEN UNCHANGED <<timerVars, time_label, pauses>>
    ELSE LET elapsed == IF Truthy(start_time) THEN now - start_time ELSE 0
         IN  /\ accumulated_seconds' = accumulated_seconds + elapsed
             /\ start_time' = None
             /\ timer_running' = FALSE
             /\ scheduled' = IF timer_job # NoJob THEN scheduled \ {timer_job} ELSE scheduled
             /\ timer_job' = NoJob
             /\ time_label' = refresh_timer_display(FALSE, None, accumulated_seconds + elapsed)
             /\ pauses' = Min(pauses + 1, MaxPauses)

\* the reset gone wrong: line 333 (311) left out
reset_fields_keeps_accumulated ==
    /\ timer_running' = FALSE
    /\ scheduled' = IF timer_job # NoJob THEN scheduled \ {timer_job} ELSE scheduled
    /\ timer_job' = NoJob
    /\ start_time' = None
    /\ accumulated_seconds' = accumulated_seconds
    /\ time_label' = refresh_timer_display(FALSE, None, accumulated_seconds)

\* the reset of the timer fields in _reset_timer and _stop_and_save
reset_fields ==
    /\ timer_running' = FALSE
    /\ scheduled' = IF timer_job # NoJob THEN scheduled \ {timer_job} ELSE scheduled
    /\ timer_job' = NoJob
    /\ start_time' = None
    /\ accumulated_seconds' = 0
    /\ time_label' = refresh_timer_display(FALSE, None, 0)

\* _reset_timer
reset_timer == reset_fields

-----------------------------------------------------------------------------
(* Stop and save *)

\* total_seconds of _stop_and_save (lines 318-321), in ticks
total_seconds ==
    LET elapsed == IF timer_running /\ Truthy(start_time) THEN now - start_time ELSE 0
    IN  accumulated_seconds + elapsed

\* _refresh_recent_sessions and _refresh_all_charts over the file system fs
refresh_all(fs) ==
    /\ recent_list' = refresh_recent_sessions(fs)
    /\ subj_chart' \in draw_subject_chart(fs)
    /\ daily_chart' = draw_daily_chart(fs)
    /\ LET o == refresh_overview(fs)
       IN  ov_label' = o.ov /\ today_minutes' = o.today_minutes
           /\ progress_label' = o.progress

\* _check_daily_target_and_notify gone wrong: > for >= at line 468
check_daily_target_and_notify_strict(fs) ==
    LET df == read_csv(fs, csv_path)
        total_today == IF df = <<>> THEN 0 ELSE TotalToday(df)
        target == EffectiveTarget(daily_target_minutes)
    IN  IF total_today > target
        THEN Append(popups, [date |-> today, target |-> target, total |-> total_today])
        ELSE popups

\* _check_daily_target_and_notify: the popups after it (its _refresh_overview
\* writes what refresh_all wrote)
check_daily_target_and_notify(fs) ==
    LET df == read_csv(fs, csv_path)
        total_today == IF df = <<>> THEN 0 ELSE TotalToday(df)
        target == EffectiveTarget(daily_target_minutes)
    IN  IF total_today >= target
        THEN Append(popups, [date |-> today, target |-> target, total |-> total_today])
        ELSE popups

StopRecord(outcome, box, total) ==
    [outcome |-> outcome, box |-> box, phase |-> Phase, duration |-> IntSeconds(total),
     active |-> active, pauses |-> pauses, elapsed |-> total]

\* stop_nothing gone wrong: the return of line 324 left out of the target check
stop_nothing_notifies ==
    /\ last_stop' = StopRecord("nothing", "No Study Time", total_seconds)
    /\ popups' = check_daily_target_and_notify(files)
    /\ UNCHANGED <<timerVars, time_label, files, chartVars, saved_sessions>>

\* total_seconds <= 0: the "No Study Time" box, and nothing else
stop_nothing ==
    /\ last_stop' = StopRecord("nothing", "No Study Time", total_seconds)
    /\ UNCHANGED <<timerVars, time_label, files, chartVars, popups, saved_sessions>>

\* stop_append_fails gone wrong: the timer reset (lines 328-334) done before
\* the append
stop_append_fails_resets(total) ==
    /\ last_stop' = StopRecord("failed", "", total)
    /\ reset_fields
    /\ UNCHANGED <<files, chartVars, popups, saved_sessions>>

\* append_session_csv raises (the file cannot be written): the exception
\* leaves _stop_and_save at line 326
stop_append_fails(total) ==
    /\ last_stop' = StopRecord("failed", "", total)
    /\ UNCHANGED <<timerVars, time_label, files, chartVars, popups, saved_sessions>>

\* lines 325-341 of _stop_and_save for the total computed at line 321, which
\* timed session sid
stop_saved(total, sid) ==
    LET fs == append_session_csv(files, csv_path, current_subject, IntSeconds(total))
    IN  /\ files' = fs
        /\ reset_fields
        /\ refresh_all(fs)
        /\ popups' = check_daily_target_and_notify(fs)
        /\ saved_sessions' = Append(saved_sessions, sid)
        /\ last_stop' = StopRecord("saved", "Saved", total)

\* rows this run has appended
RowsAppended == Len(saved_sessions)

\* _stop_and_save, run without interruption
stop_and_save ==
    IF total_seconds <= 0 THEN stop_nothing
    ELSE \/ stop_append_fails(total_seconds)
         \/ RowsAppended < MaxRows /\ stop_saved(total_seconds, session)

-----------------------------------------------------------------------------
(* Commands of the UI thread: each handler runs to completion *)

\* a new timing session may start
StartAllowed == timer_running \/ Phase # "Idle" \/ session < MaxSessions

\* the Start button
StartTimer ==
    /\ last_stop' = NoStop
    /\ StartAllowed
    /\ start_timer
    /\ UNCHANGED <<clockVars, subjectVars, csv_path, files, daily_target_minutes,
                   chartVars, voiceVars, popups, saved_sessions, valid_target>>

\* the Pause button
PauseTimer ==
    /\ last_stop' = NoStop
    /\ pause_timer
    /\ UNCHANGED <<clockVars, subjectVars, csv_path, files, daily_target_minutes,
                   chartVars, voiceVars, popups, active, session, saved_sessions,
                   valid_target>>

\* the Reset Timer button
ResetTimer ==
    /\ last_stop' = NoStop
    /\ reset_timer
    /\ UNCHANGED <<clockVars, subjectVars, csv_path, files, daily_target_minutes,
                   chartVars, voiceVars, popups, historyVars>>

\* the Stop Study (Save) button
StopAndSave ==
    /\ stop_and_save
    /\ UNCHANGED <<clockVars, subjectVars, csv_path, daily_target_minutes,
                   voiceVars, active, pauses, session, valid_target>>

\* the Stop Study (Save) button, pressed so that midnight passes between the
\* two clock reads of append_session_csv: the rest of the handler runs on the
\* new date
StopAndSaveOverMidnight ==
    /\ total_seconds > 0
    /\ RowsAppended < MaxRows
    /\ today < MaxDay
    /\ now' = now /\ today' = today + 1 /\ tod_zero' = FALSE
    /\ files' = [ensure_csv_exists(files, csv_path) EXCEPT ![csv_path].rows =
                    Append(@, SessionRowOverMidnight(current_subject,
                                                     IntSeconds(total_seconds)))]
    /\ UNCHANGED <<subjectVars, csv_path, daily_target_minutes, voiceVars,
                   active, pauses, session, valid_target>>
    /\ reset_fields
    /\ recent_list' = refresh_recent_sessions(files)'
    /\ subj_chart' \in draw_subject_chart(files)'
    /\ daily_chart' = draw_daily_chart(files)'
    /\ ov_label' = refresh_overview(files)'.ov
    /\ today_minutes' = refresh_overview(files)'.today_minutes
    /\ progress_label' = refresh_overview(files)'.progress
    /\ popups' = IF TotalToday(read_csv(files, csv_path))' >=
                        EffectiveTarget(daily_target_minutes)
                 THEN Append(popups,
                             [date |-> today',
                              target |-> EffectiveTarget(daily_target_minutes),
                              total |-> TotalToday(read_csv(files, csv_path))'])
                 ELSE popups
    /\ saved_sessions' = Append(saved_sessions, session)
    /\ last_stop' = StopRecord("saved", "Saved", total_seconds)

\* the after() callback j of _tick comes due
Tick(j) ==
    /\ last_stop' = NoStop
    /\ j \in scheduled
    /\ UNCHANGED <<timer_running, start_time, accumulated_seconds>>
    /\ tick(scheduled \ {j})
    /\ UNCHANGED <<clockVars, subjectVars, csv_path, files, daily_target_minutes,
                   chartVars, voiceVars, popups, historyVars>>

\* the Refresh Analytics button: _refresh_all_charts
RefreshAllCharts ==
    /\ last_stop' = NoStop
    /\ files' = ensure_csv_exists(files, csv_path)
    /\ refresh_all(files')
    /\ UNCHANGED <<clockVars, timerVars, time_label, subjectVars, csv_path,
                   daily_target_minutes, voiceVars, popups, historyVars>>

\* ChooseCsvPath gone wrong: lines 264 and 265 swapped
ChooseCsvPath_ensures_old(file) ==
    /\ last_stop' = NoStop
    /\ csv_path' = file
    /\ files' = ensure_csv_exists(files, csv_path)
    /\ UNCHANGED <<clockVars, timerVars, time_label, subjectVars,
                   daily_target_minutes, chartVars, voiceVars, popups, historyVars>>

\* Set CSV Path, the dialog answered with file (a cancelled dialog changes nothing)
ChooseCsvPath(file) ==
    /\ last_stop' = NoStop
    /\ csv_path' = file
    /\ files' = ensure_csv_exists(files, file)
    /\ UNCHANGED <<clockVars, timerVars, time_label, subjectVars,
                   daily_target_minutes, chartVars, voiceVars, popups, historyVars>>

\* Add Subject, the dialog answered with a name that title-cases to s
AddSubject(s) ==
    /\ last_stop' = NoStop
    /\ IF s \notin {subjects[i] : i \in 1..Len(subjects)}
       THEN subjects' = Append(subjects, s) /\ current_subject' = s
       ELSE UNCHANGED subjectVars
    /\ UNCHANGED <<clockVars, timerVars, time_label, csv_path, files,
                   daily_target_minutes, chartVars, voiceVars, popups, historyVars>>

\* the subject menu
SelectSubject(s) ==
    /\ last_stop' = NoStop
    /\ s \in {subjects[i] : i \in 1..Len(subjects)}
    /\ current_subject' = s
    /\ UNCHANGED <<subjects, clockVars, timerVars, time_label, csv_path, files,
                   daily_target_minutes, chartVars, voiceVars, popups, historyVars>>

\* the user types v into the Daily Target entry
SetTarget(v) ==
    /\ last_stop' = NoStop
    /\ daily_target_minutes' = v
    /\ valid_target' = IF v > 0 THEN v ELSE valid_target
    /\ UNCHANGED <<clockVars, timerVars, time_label, subjectVars, csv_path, files,
                   chartVars, voiceVars, popups, active, pauses, session,
                   saved_sessions>>

\* the Voice Command button: _toggle_voice
ToggleVoice ==
    /\ last_stop' = NoStop
    /\ IF voice_listening
       THEN voice_listening' = FALSE /\ workers' = workers
       ELSE /\ workers + Len(inflight) + starting < MaxWorkers
            /\ voice_listening' = TRUE
            /\ workers' = workers + 1
    /\ UNCHANGED <<inflight, starting, clockVars, timerVars, time_label, subjectVars, csv_path,
                   files, daily_target_minutes, chartVars, popups, historyVars>>

-----------------------------------------------------------------------------
(* The voice worker thread *)

\* what listen_once may return, by what _voice_worker makes of it
Heard == {"", "pause", "stop", "start", "start for physics", "hello"}

\* parse_voice_start: the subject of a start command, "" for none
parse_voice_start(text) == IF text = "start for physics" THEN "Physics" ELSE ""

\* lines 485-489: listen_once returns and the worker clears the flag
worker_returns ==
    /\ workers > 0
    /\ workers' = workers - 1
    /\ voice_listening' = FALSE

\* _voice_worker from line 490 on, the handler it calls run without interruption
VoiceWorker(text) ==
    /\ worker_returns
    /\ inflight' = inflight
    /\ UNCHANGED <<starting, clockVars, csv_path, daily_target_minutes, valid_target>>
    /\ CASE text = "" ->
              /\ last_stop' = NoStop
              /\ UNCHANGED <<timerVars, time_label, subjectVars, files, chartVars,
                             popups, active, pauses, session, saved_sessions>>
         [] text = "pause" ->
              /\ last_stop' = NoStop
              /\ pause_timer
              /\ UNCHANGED <<subjectVars, files, chartVars, popups,
                             active, session, saved_sessions>>
         [] text = "stop" ->
              /\ stop_and_save
              /\ UNCHANGED <<subjectVars, active, pauses, session>>
         [] OTHER ->
              LET subj == parse_voice_start(text)
              IN  /\ StartAllowed
                  /\ last_stop' = NoStop
                  /\ IF text \in {"start", "start for physics"} /\ subj # ""
                     THEN /\ current_subject' = subj
                          /\ subjects' =
                                IF subj \in {subjects[i] : i \in 1..Len(subjects)}
                                THEN subjects ELSE Append(subjects, subj)
                     ELSE UNCHANGED subjectVars
                  /\ start_timer
                  /\ UNCHANGED <<files, chartVars, popups, saved_sessions>>

\* a voice thread's _stop_and_save reaches line 324 with total_seconds > 0
VoiceStopBegins ==
    /\ last_stop' = NoStop
    /\ worker_returns
    /\ total_seconds > 0
    /\ inflight' = Append(inflight, [total |-> total_seconds, sid |-> session])
    /\ UNCHANGED <<starting, clockVars, timerVars, time_label, subjectVars, csv_path, files,
                   daily_target_minutes, chartVars, popups, historyVars>>

\* that call goes on from line 325 with the total it computed
VoiceStopEnds(i) ==
    /\ i \in 1..Len(inflight)
    /\ inflight' = [k \in 1..(Len(inflight) - 1) |->
                        IF k < i THEN inflight[k] ELSE inflight[k + 1]]
    /\ \/ stop_append_fails(inflight[i].total)
       \/ RowsAppended < MaxRows /\ stop_saved(inflight[i].total, inflight[i].sid)
    /\ UNCHANGED <<voice_listening, workers, starting, clockVars, subjectVars,
                   csv_path, daily_target_minutes, active, pauses, session,
                   valid_target>>

\* a voice thread's _start_timer finds the timer not running at line 284 and
\* is suspended before line 286; the worker has set the subject it heard
VoiceStartBegins(text) ==
    /\ text \notin {"", "pause", "stop"}
    /\ last_stop' = NoStop
    /\ worker_returns
    /\ ~timer_running
    /\ StartAllowed
    /\ LET subj == parse_voice_start(text)
       IN  IF text \in {"start", "start for physics"} /\ subj # ""
           THEN /\ current_subject' = subj
                /\ subjects' =
                      IF subj \in {subjects[i] : i \in 1..Len(subjects)}
                      THEN subjects ELSE Append(subjects, subj)
           ELSE UNCHANGED subjectVars
    /\ starting' = starting + 1
    /\ UNCHANGED <<inflight, clockVars, timerVars, time_label, csv_path, files,
                   daily_target_minutes, chartVars, popups, historyVars>>

\* that call goes on from line 286, whatever the timer has become
VoiceStartEnds ==
    /\ starting > 0
    /\ starting' = starting - 1
    /\ Cardinality(scheduled) < MaxJobs
    /\ Phase = "Idle" => session < MaxSessions
    /\ last_stop' = NoStop
    /\ timer_running' = TRUE
    /\ start_time' = now
    /\ accumulated_seconds' = accumulated_seconds
    /\ tick(scheduled)
    /\ IF Phase = "Idle"
       THEN session' = session + 1 /\ active' = 0 /\ pauses' = 0
       ELSE UNCHANGED <<session, active, pauses>>
    /\ UNCHANGED <<voice_listening, workers, inflight, clockVars, subjectVars,
                   csv_path, files, daily_target_minutes, chartVars, popups,
                   saved_sessions, valid_target>>

-----------------------------------------------------------------------------
(* Specifications.  Each takes the commands of one part of the application,  *)
(* the user issuing no others.                                               *)

Steps == {1, TicksPerMin}
Crossings == {"within", "past", "onto"}

\* the session timer: the timer buttons, the tick callback and the clock
Next ==
    \/ \E d \in Steps, c \in Crossings : Advance(d, c)
    \/ StartTimer
    \/ PauseTimer
    \/ ResetTimer
    \/ StopAndSave
    \/ StopAndSaveOverMidnight
    \/ \E j \in scheduled : Tick(j)

Spec == Init /\ [][Next]_vars

\* the session log: the timer, with the log location, the subject and the
\* reads of the log; the date does not change
NextLog ==
    \/ \E d \in Steps : Advance(d, "within")
    \/ StartTimer
    \/ PauseTimer
    \/ ResetTimer
    \/ StopAndSave
    \/ \E j \in scheduled : Tick(j)
    \/ RefreshAllCharts
    \/ \E f \in Locations : ChooseCsvPath(f)
    \/ \E s \in AddableSubjects : AddSubject(s)
    \/ \E s \in AllSubjects : SelectSubject(s)

SpecLog == Init /\ [][NextLog]_vars

\* analytics and the daily target: sessions started and stopped, the target
\* entry, the refresh button and the calendar
NextTarget ==
    \/ \E d \in Steps, c \in Crossings : Advance(d, c)
    \/ StartTimer
    \/ StopAndSave
    \/ RefreshAllCharts
    \/ \E v \in TargetInputs : SetTarget(v)

SpecTarget == Init /\ [][NextTarget]_vars

\* the timer under the commands of the UI thread and of voice worker threads,
\* whose _stop_and_save interleaves with the UI thread's commands; the date
\* does not change
NextThreads ==
    \/ \E d \in Steps : Advance(d, "within")
    \/ StartTimer
    \/ PauseTimer
    \/ ResetTimer
    \/ StopAndSave
    \/ \E j \in scheduled : Tick(j)
    \/ ToggleVoice
    \/ \E t \in Heard : VoiceWorker(t)
    \/ VoiceStopBegins
    \/ \E i \in 1..Len(inflight) : VoiceStopEnds(i)

SpecThreads == Init /\ [][NextThreads]_vars

\* the timer under the commands of the UI thread and of voice worker threads,
\* whose _start_timer interleaves with the UI thread's commands; the date
\* does not change
NextStarts ==
    \/ \E d \in Steps : Advance(d, "within")
    \/ StartTimer
    \/ PauseTimer
    \/ ResetTimer
    \/ StopAndSave
    \/ \E j \in scheduled : Tick(j)
    \/ ToggleVoice
    \/ \E t \in Heard : VoiceWorker(t)
    \/ \E t \in Heard : VoiceStartBegins(t)
    \/ VoiceStartEnds

SpecStarts == Init /\ [][NextStarts]_vars

-----------------------------------------------------------------------------
(* Properties *)

\* the row the last append wrote at the current location
LastRow == files[csv_path].rows[Len(files[csv_path].rows)]

Saved == last_stop.outcome = "saved"

\* C1: the duration written at stop equals the time the timer spent Running
\* since it left Idle, to within one second, however many pauses there were
C1_DurationIsActiveTime ==
    Saved =>
        /\ LastRow.duration_seconds * Res - last_stop.active <= Res
        /\ last_stop.active - LastRow.duration_seconds * Res <= Res

\* a session of more than a minute with a sub-second part, paused twice, is saved
C1_Witness ==
    /\ Saved
    /\ last_stop.pauses >= 2
    /\ last_stop.active > TicksPerMin
    /\ last_stop.active % Res # 0

\* C2 as claimed: whatever its outcome, stop leaves the timer Idle: not
\* running, no run start instant, nothing accumulated
C2_StopAlwaysIdle ==
    last_stop.outcome # "none" =>
        ~timer_running /\ start_time = None /\ accumulated_seconds = 0

\* C2 amended: a stop that saves the session leaves the timer Idle with nothing
\* accumulated and no tick pending, from Running as from Paused; a stop that
\* saves nothing (nothing elapsed, or the append failed) leaves the phase and
\* the elapsed time as they were
C2_StopIdleWhenSaved ==
    /\ Saved =>
          /\ ~timer_running /\ start_time = None /\ accumulated_seconds = 0
          /\ timer_job = NoJob
    /\ last_stop.outcome \in {"nothing", "failed"} =>
          Phase = last_stop.phase /\ total_seconds = last_stop.elapsed

\* a stop pressed while Paused has saved the session
C2_Witness == Saved /\ last_stop.phase = "Paused" /\ last_stop.elapsed > 0

\* C10 as claimed: every row of every log has a duration of at least 1 second
C10_DurationAtLeastOne ==
    \A l \in Locations : \A i \in 1..Len(files[l].rows) :
        files[l].rows[i].duration_seconds >= 1

\* C10 amended: every row has a whole number of seconds >= 0, and the row a
\* stop writes has 0 exactly when less than a second had elapsed
C10_DurationNonNegative ==
    /\ \A l \in Locations : \A i \in 1..Len(files[l].rows) :
          files[l].rows[i].duration_seconds \in Nat
    /\ Saved => (LastRow.duration_seconds = 0 <=> last_stop.elapsed < Res)

\* less than a second is saved as a row of 0 seconds
C10_Witness == Saved /\ last_stop.elapsed > 0 /\ LastRow.duration_seconds = 0

\* seconds logged in rows for the date d
LoggedSeconds(rows, d) ==
    LET RECURSIVE upto(_)
        upto(n) == IF n = 0 THEN 0
                   ELSE upto(n - 1)
                        + (IF rows[n].date = d THEN rows[n].duration_seconds ELSE 0)
    IN  upto(Len(rows))

\* whole minutes logged today at the current location
LoggedMinutesToday == LoggedSeconds(files[csv_path].rows, today) \div SecPerMin

\* the target a value of the entry stands for
Clamped(v) == IF v > 0 THEN v ELSE IF v = 0 THEN DefaultTarget ELSE 1

\* C3 as claimed: the target-achieved notification fires at most once per
\* calendar date
C3_OncePerDate ==
    \A i, j \in 1..Len(popups) : i # j => popups[i].date # popups[j].date

\* C3 amended: the notification fires at most once per saved session: only a
\* stop that saves a session emits one, and it emits one exactly when the
\* minutes logged today have reached the target, also when an earlier session
\* of that date already did
C3_OncePerSavedSession ==
    [][/\ IsPrefix(popups, popups') /\ Len(popups') <= Len(popups) + 1
       /\ popups' # popups => last_stop'.outcome = "saved"
       /\ last_stop'.outcome = "saved" =>
             (popups' # popups <=> LoggedMinutesToday' >= Clamped(daily_target_minutes))
      ]_vars

\* two notifications carry the same date
C3_Witness == Len(popups) >= 2 /\ popups[1].date = popups[2].date

\* what the daily chart shows, for the log and the date as they are now
DailyShape ==
    IF files[csv_path].rows = <<>> THEN daily_chart.nodata
    ELSE ~daily_chart.nodata /\ Len(daily_chart.vals) = DailyDays

DailySeriesFresh ==
    /\ DailyShape
    /\ ~daily_chart.nodata =>
          \A i \in 1..DailyDays :
              daily_chart.vals[i] =
                  <<LoggedSeconds(files[csv_path].rows, today - DailyDays + i), SecPerMin>>

\* C7 as claimed: the daily series always has exactly n = 14 entries, also
\* for an empty log
C7_AlwaysNEntries == ~daily_chart.nodata /\ Len(daily_chart.vals) = DailyDays

\* C7 amended: for a log that holds a session the series drawn has exactly 14
\* entries, one per date of the 14 days ending today, oldest first, 0 for a
\* date without sessions; for an empty log no series is drawn ("No data")
C7_SeriesWhenLogged ==
    /\ []DailyShape
    /\ [][daily_chart' # daily_chart => DailySeriesFresh']_vars

\* a series drawn after a stop: minutes for today, an explicit 0 for yesterday
C7_Witness ==
    /\ Saved /\ ~daily_chart.nodata
    /\ daily_chart.vals[DailyDays][1] > 0
    /\ daily_chart.vals[DailyDays - 1][1] = 0

\* C8 as claimed: a target <= 0 is rejected, and every later progress
\* computation and target check uses the last target set that was > 0
C8_InvalidTargetRejected ==
    [][/\ progress_label' # progress_label => progress_label'.target = valid_target'
       /\ popups' # popups => popups'[Len(popups')].target = valid_target'
      ]_vars

\* C8 amended: no value is rejected and none is retained: every progress
\* computation and target check uses the entry's current value v: v itself
\* when v > 0, 60 when v = 0, 1 when v < 0
C8_TargetClamped ==
    [][/\ progress_label' # progress_label =>
             progress_label'.target = Clamped(daily_target_minutes')
       /\ popups' # popups =>
             popups'[Len(popups')].target = Clamped(daily_target_minutes')
      ]_vars

\* a progress computation used 1 for an entry of -1, no target > 0 ever typed
C8_Witness ==
    /\ daily_target_minutes = -1 /\ valid_target = DefaultTarget
    /\ progress_label.target = 1

\* C4: the elapsed time of one timing session gives at most one row of the
\* log, whichever thread the stop commands come from: no two rows time the
\* same session
C4_AtMostOneRowPerSession ==
    \A i, j \in 1..Len(saved_sessions) :
        i # j => saved_sessions[i] # saved_sessions[j]

\* C5: the log read back after an append ends with the appended session: its
\* subject and its duration
C5_AppendThenRead ==
    Saved =>
        LET df == read_csv(files, csv_path)
        IN  /\ df[Len(df)].subject = current_subject
            /\ df[Len(df)].duration_seconds = last_stop.duration

\* C6: the log at every location only grows at its end: a step leaves an
\* existing store in existence and its rows as a prefix of the rows after
C6_AppendOnly ==
    [][\A l \in Locations :
          /\ files[l].exists => files'[l].exists
          /\ IsPrefix(files[l].rows, files'[l].rows)
      ]_vars

\* both locations held a row of an earlier run, the location was changed and
\* changed back, and each log has been appended to
C6_Witness ==
    /\ csv_path = DEFAULT_CSV_NAME
    /\ \A l \in Locations : Len(files[l].rows) >= 2

\* C9: at most one voice worker is listening at any time
C9_OneVoiceWorker == workers <= 1

\* C12: in every row of every log the date column is the calendar date of
\* the timestamp column
C12_DateIsTimestampDate ==
    \A l \in Locations : \A i \in 1..Len(files[l].rows) :
        files[l].rows[i].date = files[l].rows[i].timestamp

\* C13: a step that redirects the log to a location that does not exist
\* leaves a store without sessions there; and every step, a redirection as an
\* append, leaves the store at every location but the one that is current
\* after it as it was
C13_RedirectKeepsPrevious ==
    [][/\ (csv_path' # csv_path /\ ~files[csv_path'].exists) =>
             files'[csv_path'] = EmptyFile
       /\ \A l \in Locations : l # csv_path' => files'[l] = files[l]
      ]_vars

\* a session was saved at the first location, the log was redirected to a
\* location that did not exist, and a session has just been saved there
C13_Witness ==
    /\ Saved
    /\ csv_path # DEFAULT_CSV_NAME
    /\ Len(files[csv_path].rows) = 1
    /\ Len(files[DEFAULT_CSV_NAME].rows) = 1

\* C14: a target check (one is made by every stop that saves) emits nothing
\* when the whole minutes logged today are below the target, and otherwise
\* emits exactly one notification, which carries the target and the whole
\* minutes logged today
C14_TargetCheck ==
    [][last_stop'.outcome = "saved" =>
          IF LoggedMinutesToday' < Clamped(daily_target_minutes')
          THEN popups' = popups
          ELSE popups' = Append(popups,
                                [date |-> today',
                                 target |-> Clamped(daily_target_minutes'),
                                 total |-> LoggedMinutesToday'])
      ]_vars

\* two sessions were saved today: after the first the total was below the
\* target and nothing was emitted, after the second the one notification was
C14_Witness ==
    /\ Saved
    /\ Len(files[csv_path].rows) = 2
    /\ \A i \in 1..2 : files[csv_path].rows[i].date = today
    /\ Len(popups) = 1
    /\ popups[1].total >= popups[1].target

\* C15: in every state reached by start, pause, reset and stop commands the
\* run start instant is set exactly when the timer is running
C15_StartSetIffRunning == (start_time # None) <=> timer_running

\* the timer runs again after a pause, with time accumulated and a start instant
C15_Witness ==
    /\ timer_running /\ start_time # None
    /\ pauses >= 1 /\ accumulated_seconds > 0

\* C16: a pause of a running timer adds the live interval to the accumulated
\* time, clears the start instant and stops the timer, so that the elapsed
\* time and the display are those of just before; a pause of a timer that is
\* not running changes nothing; and the elapsed time of a timer that is not
\* running does not change as time passes
C16_PauseKeepsElapsed ==
    [][/\ PauseTimer =>
             IF timer_running
             THEN /\ accumulated_seconds' = accumulated_seconds + (now - start_time)
                  /\ start_time' = None
                  /\ ~timer_running'
                  /\ total_seconds' = total_seconds
                  /\ time_label' = seconds_to_mmss(total_seconds)
             ELSE UNCHANGED <<timerVars, time_label>>
       /\ (~timer_running /\ ~timer_running' /\ now' # now) =>
             total_seconds' = total_seconds
      ]_vars

\* after a second pause the accumulated time, with a sub-second part, is the
\* whole time spent running, and more time than that has passed
C16_Witness ==
    /\ ~timer_running /\ pauses = 2
    /\ accumulated_seconds = active
    /\ accumulated_seconds % Res # 0
    /\ now - Epoch > active

\* C17: a start command given to a running timer changes none of the running
\* flag, the start instant, the accumulated time and the pending tick, so
\* that the elapsed time of a running timer is always the whole time it has
\* spent running
C17_StartWhileRunningNoOp ==
    /\ [][(StartTimer /\ timer_running) =>
             UNCHANGED <<timerVars, time_label, active, pauses, session>>]_vars
    /\ [](timer_running => total_seconds = active)

\* a running timer with a live interval, accumulated time and a pending tick
C17_Witness ==
    /\ timer_running /\ now > start_time
    /\ accumulated_seconds > 0
    /\ timer_job # NoJob /\ timer_job \in scheduled

\* C18: whenever the timer is not running no tick callback is pending, under
\* every interleaving of the commands of the UI thread, the tick callbacks
\* and the commands of voice threads
C18_NoTickPendingUnlessRunning == ~timer_running => scheduled = {}

\* round(x) of a duration held in ticks: the nearest whole second, a half
\* going to the even one
RoundSeconds(ticks) ==
    LET q == ticks \div Res
        r == ticks % Res
    IN  IF 2 * r < Res THEN q
        ELSE IF 2 * r > Res THEN q + 1
        ELSE IF q % 2 = 0 THEN q ELSE q + 1

\* C19 as claimed: the duration stored is the elapsed time rounded to the
\* nearest second
C19_DurationIsRounded ==
    Saved => LastRow.duration_seconds = RoundSeconds(last_stop.elapsed)

\* C19 amended: the duration stored is the elapsed time truncated to whole
\* seconds, the sub-second part dropped; until the stop the elapsed time is
\* kept exactly, sub-second part included, through pauses
C19_DurationIsTruncated ==
    /\ Saved =>
          /\ LastRow.duration_seconds * Res <= last_stop.elapsed
          /\ last_stop.elapsed < (LastRow.duration_seconds + 1) * Res
    /\ Phase # "Idle" => total_seconds = active

\* a paused and resumed session of more than a second with a sub-second part
\* was saved, with fewer seconds than rounding gives
C19_Witness ==
    /\ Saved
    /\ last_stop.pauses >= 1
    /\ last_stop.elapsed > Res /\ last_stop.elapsed % Res # 0
    /\ LastRow.duration_seconds < RoundSeconds(last_stop.elapsed)

\* the place of a subject name in ascending order of names
NameRank(name) ==
    CASE name = "Math" -> 1
      [] name = "N/A" -> 2
      [] name = "Physics" -> 3
      [] OTHER -> 4

\* the per-subject rollup as claimed, for the log and the date as they are:
\* the sessions dated today - 6 or later, their seconds summed per subject,
\* subjects by descending whole minutes and then by ascending name
ClaimedRollup ==
    LET rows == files[csv_path].rows
        keep(r) == r.date >= today - (SubjectDays - 1)
        recent == SelectSeq(rows, keep)
        keys == {recent[i].subject : i \in 1..Len(recent)}
        total == [k \in keys |-> LET mine(r) == r.subject = k
                                 IN  SumDuration(SelectSeq(recent, mine))]
        before(a, b) ==
            \/ total[a] \div SecPerMin > total[b] \div SecPerMin
            \/ /\ total[a] \div SecPerMin = total[b] \div SecPerMin
               /\ NameRank(a) < NameRank(b)
        order == CHOOSE o \in [1..Cardinality(keys) -> keys] :
                    \A i, j \in 1..Cardinality(keys) : i < j => before(o[i], o[j])
    IN  [i \in 1..Cardinality(keys) |-> <<order[i], total[order[i]]>>]

\* the subjects drawn, in the order drawn, each with the seconds summed for it
ChartRollup ==
    [i \in 1..Len(subj_chart.bars) |->
        <<subj_chart.bars[i][1], subj_chart.bars[i][2][1]>>]

\* C20: the per-subject rollup drawn by a stop that has just saved a session
\* is the claimed one, at whatever time of day the stop happens
C20_RollupOfLastSevenDates == Saved => ChartRollup = ClaimedRollup

\* C21: at most one tick callback is pending at any time, and _timer_job
\* names it, under every interleaving of the commands of the UI thread and
\* of voice threads
C21_AtMostOneTickPending ==
    /\ Cardinality(scheduled) <= 1
    /\ scheduled # {} => scheduled = {timer_job}

\* C22: a stop whose append fails adds no row to any log, shows nothing and
\* leaves the running flag, the start instant, the accumulated time and the
\* pending tick as they were; the elapsed time of a session in progress stays
\* the whole time spent running, and a stop that saves writes that time
C22_FailedAppendKeepsTimer ==
    /\ [][last_stop'.outcome = "failed" =>
             /\ files' = files
             /\ UNCHANGED <<timerVars, time_label, chartVars, popups, saved_sessions>>
             /\ total_seconds' = last_stop'.elapsed
          ]_vars
    /\ [](Phase # "Idle" => total_seconds = active)
    /\ [](Saved => LastRow.duration_seconds = IntSeconds(last_stop.active))

\* the append has just failed for a running timer, paused before, with more
\* than a second elapsed: all of it is still there to be saved
C22_Witness ==
    /\ last_stop.outcome = "failed"
    /\ timer_running /\ timer_job \in scheduled
    /\ last_stop.pauses >= 1
    /\ total_seconds > Res /\ total_seconds = active

\* C11: a stop with an elapsed time <= 0 has the nothing-to-save outcome, and
\* only such a stop has it: the "No Study Time" box is shown, no row is
\* written to any log, nothing is recomputed from the log and no target
\* notification is shown
C11_NothingToSave ==
    [][/\ (last_stop'.outcome # "none" /\ last_stop'.elapsed <= 0) =>
             last_stop'.outcome = "nothing"
       /\ last_stop'.outcome = "nothing" =>
             /\ last_stop'.elapsed <= 0
             /\ last_stop'.box = "No Study Time"
             /\ files' = files
             /\ popups' = popups
             /\ UNCHANGED chartVars
      ]_vars

\* nothing to save, on a date whose logged minutes have reached the target: a
\* target check would have notified
C11_Witness ==
    /\ last_stop.outcome = "nothing"
    /\ popups # <<>>
    /\ LoggedMinutesToday >= Clamped(daily_target_minutes)

====
